---- MODULE Spec2Model ----
(***************************************************************************)
(* A model of the regularization-coefficient schedulers                    *)
(* (emecom_gen/model/game/beta_scheduler.py) and of the recurrent sender   *)
(* (emecom_gen/model/sender/rnn_reinforce_sender.py).                      *)
(*                                                                         *)
(* Floating point numbers are modelled as exact rationals <<num, den>>.    *)
(* Tensors of one example are modelled (the batch dimension is carried     *)
(* through every operation of the sender unchanged, row by row).           *)
(***************************************************************************)
EXTENDS Integers, Sequences, FiniteSets, TLC

(* ------------------------------ bounds -------------------------------- *)
\* largest step argument passed to a scheduler
MaxStep == 4
\* largest period tried when constructing a CyclicalBetaScheduler
MaxPeriod == 3
\* number of per-example accuracies in the acc tensor
BatchSize == 2
\* number of training-context calls of the accuracy-based scheduler
MaxCalls == 3

(* ----------------------------- rationals ------------------------------ *)
None == <<>>

Abs(x) == IF x < 0 THEN -x ELSE x

RECURSIVE GCD(_, _)
GCD(a, b) == IF b = 0 THEN a ELSE GCD(b, a % b)

Rat(n, d) ==
    LET g == GCD(Abs(n), Abs(d))
        s == IF d < 0 THEN -1 ELSE 1
    IN  <<(s * n) \div g, (s * d) \div g>>

RatAdd(x, y) == Rat(x[1] * y[2] + y[1] * x[2], x[2] * y[2])

RatSub(x, y) == Rat(x[1] * y[2] - y[1] * x[2], x[2] * y[2])

RatMul(x, y) == Rat(x[1] * y[1], x[2] * y[2])

RatDiv(x, y) == Rat(x[1] * y[2], x[2] * y[1])

RatLess(x, y) == x[1] * y[2] < y[1] * x[2]

RatLeq(x, y) == x[1] * y[2] <= y[1] * x[2]

RECURSIVE RatPow(_, _)
RatPow(x, n) == IF n = 0 THEN <<1, 1>> ELSE RatMul(x, RatPow(x, n - 1))

One == <<1, 1>>

Zero == <<0, 1>>

Ceil(x) == (x[1] + x[2] - 1) \div x[2]

\* Python's min(a, b): b only when b < a
PyMin(a, b) == IF RatLess(b, a) THEN b ELSE a

(* ------------------------ scheduler: state ---------------------------- *)
VARIABLES
    kind,          \* which BetaSchedulerBase subclass the instance is
    params,        \* the fields set by __init__
    acc_ema,       \* AccuracyBasedBetaScheduler.acc_ema (None or a rational)
    acc_history,   \* the batch means fed by training-context calls so far
    last,          \* the latest call: its arguments, context and outcome
    prev           \* step and outcome of the linear ramp's call before the latest

schedvars == <<kind, params, acc_ema, acc_history, last, prev>>

Steps == 0 .. MaxStep

\* the acc tensor: one 0/1 accuracy per example
AccTensors == [1 .. BatchSize -> {0, 1}]

RECURSIVE SumSeq(_, _)
SumSeq(f, n) == IF n = 0 THEN 0 ELSE f[n] + SumSeq(f, n - 1)

\* acc.mean().item()
Mean(acc) == Rat(SumSeq(acc, BatchSize), BatchSize)

NoCall == [step |-> 0, acc |-> None, training |-> FALSE, ret |-> None, raised |-> "none"]

NoParams ==
    [value |-> None, gain |-> 0, offset |-> 0, period |-> 0,
     position_to_reach_peak |-> None, exponent |-> 0, smoothing_factor |-> None]

ConstantValues == {<<3, 10>>, <<1, 1>>}

SigmoidGains == {1, 2}

SigmoidOffsets == {0, 2}

PeriodCandidates == 0 .. MaxPeriod

PeakCandidates == {<<0, 1>>, <<1, 3>>, <<1, 2>>, <<1, 1>>, <<3, 2>>}

Exponents == {1, 2}

SmoothingFactors == {<<1, 10>>, <<1, 2>>}

\* the two assertions of CyclicalBetaScheduler.__init__
CyclicalInitOK(period, position_to_reach_peak) ==
    /\ period > 0
    /\ RatLeq(Zero, position_to_reach_peak)
    /\ RatLeq(position_to_reach_peak, One)

ConstantInit ==
    /\ kind = "constant"
    /\ \E v \in ConstantValues : params = [NoParams EXCEPT !.value = v]

SigmoidInit ==
    /\ kind = "sigmoid"
    /\ \E g \in SigmoidGains, o \in SigmoidOffsets :
          params = [NoParams EXCEPT !.gain = g, !.offset = o]

CyclicalInit ==
    /\ kind = "cyclical"
    /\ \E p \in PeriodCandidates, q \in PeakCandidates :
          /\ CyclicalInitOK(p, q)
          /\ params = [NoParams EXCEPT !.period = p, !.position_to_reach_peak = q]

AccuracyInit ==
    /\ kind = "accuracy"
    /\ \E x \in Exponents, s \in SmoothingFactors :
          params = [NoParams EXCEPT !.exponent = x, !.smoothing_factor = s]

(* ---------------------- scheduler: operations ------------------------- *)
Returned(step, acc, training, ret) ==
    [step |-> step, acc |-> acc, training |-> training, ret |-> ret, raised |-> "none"]

Raised(step, acc, training, exc) ==
    [step |-> step, acc |-> acc, training |-> training, ret |-> None, raised |-> exc]

ConstantForward ==
    /\ kind = "constant"
    /\ \E step \in Steps, acc \in AccTensors, training \in BOOLEAN :
          last' = Returned(step, acc, training, params.value)
    /\ UNCHANGED <<kind, params, acc_ema, acc_history, prev>>

\* the value sigmoid(x) is kept as the term <<"sigmoid", x>>
SigmoidForward ==
    /\ kind = "sigmoid"
    /\ \E step \in Steps, acc \in AccTensors, training \in BOOLEAN :
          last' = Returned(step, acc, training,
                           <<"sigmoid", params.gain * (step - params.offset)>>)
    /\ UNCHANGED <<kind, params, acc_ema, acc_history, prev>>

\* a ramp that restarts every period
CyclicalCoefficientPeriodic(step) ==
    PyMin(One, RatDiv(<<(step % params.period) + 1, 1>>,
                      RatMul(<<params.period, 1>>, params.position_to_reach_peak)))

\* min(1, (step + 1) / (period * position_to_reach_peak))
CyclicalCoefficient(step) ==
    PyMin(One, RatDiv(<<step + 1, 1>>,
                      RatMul(<<params.period, 1>>, params.position_to_reach_peak)))

CyclicalForward ==
    /\ kind = "cyclical"
    /\ \E step \in Steps, acc \in AccTensors, training \in BOOLEAN :
          IF RatMul(<<params.period, 1>>, params.position_to_reach_peak) = Zero
          THEN last' = Raised(step, acc, training, "ZeroDivisionError")
          ELSE last' = Returned(step, acc, training, CyclicalCoefficient(step))
    /\ prev' = [last EXCEPT !.acc = IF last.acc = None THEN None ELSE <<0>>,
                          !.training = FALSE]
    /\ UNCHANGED <<kind, params, acc_ema, acc_history>>

\* the two weights of the moving average exchanged
AccEmaUpdateSwapped(ema, mean) ==
    IF ema = None
    THEN mean
    ELSE RatAdd(RatMul(RatSub(One, params.smoothing_factor), mean),
                RatMul(params.smoothing_factor, ema))

\* the value assigned to self.acc_ema in training context
AccEmaUpdate(ema, mean) ==
    IF ema = None
    THEN mean
    ELSE RatAdd(RatMul(params.smoothing_factor, mean),
                RatMul(RatSub(One, params.smoothing_factor), ema))

\* the first observation is returned but not stored
AccuracyForwardTrainingForgetsFirst ==
    /\ kind = "accuracy"
    /\ Len(acc_history) < MaxCalls
    /\ \E step \in Steps, acc \in AccTensors :
          /\ acc_ema' = IF acc_ema = None THEN None ELSE AccEmaUpdate(acc_ema, Mean(acc))
          /\ acc_history' = Append(acc_history, Mean(acc))
          /\ last' = Returned(step, acc, TRUE,
                              RatPow(AccEmaUpdate(acc_ema, Mean(acc)), params.exponent))
    /\ UNCHANGED <<kind, params, prev>>

AccuracyForwardTraining ==
    /\ kind = "accuracy"
    /\ Len(acc_history) < MaxCalls
    /\ \E step \in Steps, acc \in AccTensors :
          /\ acc_ema' = AccEmaUpdate(acc_ema, Mean(acc))
          /\ acc_history' = Append(acc_history, Mean(acc))
          /\ last' = Returned(step, acc, TRUE, RatPow(acc_ema', params.exponent))
    /\ UNCHANGED <<kind, params, prev>>

\* the moving average is updated whatever the context
AccuracyForwardEvalUpdates ==
    /\ kind = "accuracy"
    /\ \E step \in Steps, acc \in AccTensors :
          /\ acc_ema' = AccEmaUpdate(acc_ema, Mean(acc))
          /\ last' = Returned(step, acc, FALSE, RatPow(acc_ema', params.exponent))
    /\ UNCHANGED <<kind, params, acc_history, prev>>

AccuracyForwardEval ==
    /\ kind = "accuracy"
    /\ \E step \in Steps, acc \in AccTensors :
          last' = Returned(step, acc, FALSE,
                           IF acc_ema = None THEN Zero
                           ELSE RatPow(acc_ema, params.exponent))
    /\ UNCHANGED <<kind, params, acc_ema, acc_history, prev>>

(* --------------------------- sender: bounds --------------------------- *)
\* largest max_len a sender is constructed with
MaxLen == 2
\* vocab_size of the sender
VocabSize == 2
\* tensor entries are residues modulo Modulus
Modulus == 3
\* the fixed-point value of 1.0 in a relaxed (probability) vector
Unit == 3

(* --------------------------- sender: state ---------------------------- *)
VARIABLES
    sender,                 \* the fields and parameters set by __init__
    pc,                     \* "idle", "loop", "gs_loop", "done" or "error"
    call,                   \* the arguments and context of the current call
    encoder_hidden_state,
    h, c, e,
    h_dropout_mask, e_dropout_mask,
    num_steps,
    symbol_list, logits_list, estimated_value_list,
    cell_inputs,            \* the inputs e passed to self.cell.forward so far
    out,                    \* the returned SenderOutput, or None
    raised,                 \* the exception the call ended with, or "none"
    prev_eval               \* the previous completed evaluation-context call

sendervars ==
    <<sender, pc, call, encoder_hidden_state, h, c, e, h_dropout_mask,
      e_dropout_mask, num_steps, symbol_list, logits_list,
      estimated_value_list, cell_inputs, out, raised, prev_eval>>

vars == <<schedvars, sendervars>>

Val == 0 .. (Modulus - 1)

Symbols == 0 .. (VocabSize - 1)

Inputs == {0, 1}

CellTypes == {"rnn", "gru", "lstm"}

\* dropout probabilities, in percent
Dropouts == {0, 50}

\* Numeric kernels of the tensor library (Linear, RNNCell, GRUCell, LSTMCell,
\* LayerNorm, Embedding) are deterministic functions of their parameters and
\* arguments; they are modelled as affine maps on residues.
ParameterValues(n) ==
    [enc_w |-> n, enc_b |-> 1,
     ih |-> 1, hh |-> n, b |-> 1,
     out_w |-> [k \in Symbols |-> k + n], out_b |-> [k \in Symbols |-> k],
     val_w |-> n, val_b |-> 1,
     embedding |-> [k \in Symbols |-> (k + n) % Modulus],
     bos_embedding |-> (n + 1) % Modulus]

\* the parameters after construction and training
Weights == ParameterValues(1)

Senders ==
    [max_len : 1 .. MaxLen,
     vocab_size : {VocabSize},
     fix_message_length : BOOLEAN,
     cell_type : CellTypes,
     enable_layer_norm : BOOLEAN,
     dropout : Dropouts,
     gs_straight_through : BOOLEAN,
     w : {Weights}]

NoCallS == [mode |-> "none", input |-> 0, training |-> FALSE,
            forced_message |-> None, forced_repr |-> "none"]

(* ------------------------- sender: helpers ---------------------------- *)
object_encoder(input) == (sender.w.enc_w * input + sender.w.enc_b) % Modulus

layer_norm(x) == IF sender.enable_layer_norm THEN (2 * x + 1) % Modulus ELSE x

\* self.cell.forward: <<h, c>> after one step; only the LSTM carries c
cell(ee, hh, cc) ==
    CASE sender.cell_type = "rnn" ->
            <<(sender.w.ih * ee + sender.w.hh * hh + sender.w.b) % Modulus, cc>>
      [] sender.cell_type = "gru" ->
            <<(sender.w.ih * ee + 2 * sender.w.hh * hh + sender.w.b) % Modulus, cc>>
      [] sender.cell_type = "lstm" ->
            LET c2 == (cc + sender.w.ih * ee + sender.w.hh * hh) % Modulus
            IN  <<(c2 + sender.w.b) % Modulus, c2>>

hidden_to_output(hh) ==
    [k \in Symbols |-> (sender.w.out_w[k] * hh + sender.w.out_b[k]) % Modulus]

value_estimator(hh) == (sender.w.val_w * hh + sender.w.val_b) % Modulus

embedding(symbol) == sender.w.embedding[symbol]

\* x.argmax(dim=-1): the first index holding the largest entry
argmax(x) ==
    CHOOSE k \in DOMAIN x :
        /\ \A j \in DOMAIN x : x[j] <= x[k]
        /\ \A j \in DOMAIN x : x[j] = x[k] => k <= j

OneHot(k) == [j \in Symbols |-> IF j = k THEN Unit ELSE 0]

shape_keeping_argmax(x) == OneHot(argmax(x))

ZeroLogits == [k \in Symbols |-> 0]

\* dropout that is not switched off in evaluation context
DropoutMasksAlways(training, p) ==
    IF p > 0 THEN {0, 100 \div (100 - p)} ELSE {1}

\* Dropout(p).forward(ones): identity in evaluation context; in training
\* context every entry is 0 or 1 / (1 - p)
DropoutMasks(training, p) ==
    IF training /\ p > 0 THEN {0, 100 \div (100 - p)} ELSE {1}

\* Categorical(logits=...).sample(): every symbol has positive probability
CategoricalSamples == Symbols

RECURSIVE SumVec(_, _)
SumVec(x, n) == IF n < 0 THEN 0 ELSE x[n] + SumVec(x, n - 1)

\* RelaxedOneHotCategorical(...).rsample(): a point of the open simplex
RelaxedSamples ==
    {x \in [Symbols -> 1 .. Unit] : SumVec(x, VocabSize - 1) = Unit}

\* forced messages of symbol ids: the constant and the cycling sequences
IdSequences(len) ==
    {[t \in 1 .. len |-> (a + b * t) % VocabSize] : a \in Symbols, b \in Symbols}

VectorSequences(len) == {[t \in 1 .. len |-> OneHot(s[t])] : s \in IdSequences(len)}

NumSteps(forced_message) ==
    IF forced_message # None THEN Len(forced_message[1])
    ELSE IF sender.fix_message_length THEN sender.max_len
    ELSE sender.max_len - 1


(* ----------------------- sender: forward ------------------------------ *)
\* what is remembered of the call that precedes a new call
RememberEval ==
    IF pc = "done" /\ call.mode = "forward" /\ ~call.training
       /\ call.forced_message = None
    THEN [input |-> call.input, message |-> out.message]
    ELSE prev_eval

StartCall(mode, input, training, forced_message, forced_repr, hm, em) ==
    /\ pc \in {"idle", "done", "error"}
    /\ call' = [mode |-> mode, input |-> input, training |-> training,
                forced_message |-> forced_message, forced_repr |-> forced_repr]
    /\ encoder_hidden_state' = layer_norm(object_encoder(input))
    /\ h_dropout_mask' = hm
    /\ e_dropout_mask' = em
    /\ h' = (encoder_hidden_state' * hm) % Modulus
    /\ c' = 0
    /\ e' = (sender.w.bos_embedding * em) % Modulus
    /\ symbol_list' = <<>>
    /\ logits_list' = <<>>
    /\ estimated_value_list' = <<>>
    /\ cell_inputs' = <<>>
    /\ num_steps' = NumSteps(forced_message)
    /\ out' = None
    /\ raised' = "none"
    /\ prev_eval' = RememberEval
    /\ UNCHANGED sender

ForwardCall ==
    /\ \E input \in Inputs, training \in BOOLEAN :
       \E hm \in DropoutMasks(training, sender.dropout),
          em \in DropoutMasks(training, sender.dropout) :
          \/ StartCall("forward", input, training, None, "none", hm, em)
          \/ \E m \in IdSequences(sender.max_len) :
                StartCall("forward", input, training, <<m>>, "ids", hm, em)
    /\ pc' = "loop"

\* lines 129-134: the symbol assigned from forced_message at line 130 is
\* assigned again by the if/else of lines 131-134
ForwardSymbols(forced_message, training, step, step_logits) ==
    IF training THEN CategoricalSamples ELSE {argmax(step_logits)}

ForwardStep ==
    /\ pc = "loop"
    /\ Len(symbol_list) < num_steps
    /\ LET step == Len(symbol_list)
           hc == cell(e, h, c)
           h2 == layer_norm((hc[1] * h_dropout_mask) % Modulus)
           step_logits == hidden_to_output(h2)
           step_estimated_value == value_estimator(h2)
       IN  /\ cell_inputs' = Append(cell_inputs, e)
           /\ h' = h2
           /\ c' = hc[2]
           /\ \E symbol \in ForwardSymbols(call.forced_message, call.training,
                                           step, step_logits) :
                 /\ e' = (embedding(symbol) * e_dropout_mask) % Modulus
                 /\ symbol_list' = Append(symbol_list, symbol)
           /\ logits_list' = Append(logits_list, step_logits)
           /\ estimated_value_list' = Append(estimated_value_list, step_estimated_value)
    /\ UNCHANGED <<sender, pc, call, encoder_hidden_state, h_dropout_mask,
                   e_dropout_mask, num_steps, out, raised, prev_eval>>

\* the padding step repeats the last generated step
ForwardPadCopiesLast(xs, zero) ==
    IF ~sender.fix_message_length THEN Append(xs, xs[Len(xs)]) ELSE xs

\* lines 147-150
ForwardPad(xs, zero) ==
    IF ~sender.fix_message_length THEN Append(xs, zero) ELSE xs

ForwardReturn ==
    /\ pc = "loop"
    /\ Len(symbol_list) = num_steps
    /\ IF symbol_list = <<>>
       THEN \* torch.stack of an empty list
            /\ raised' = "RuntimeError"
            /\ pc' = "error"
            /\ out' = None
       ELSE /\ out' = [message |-> ForwardPad(symbol_list, 0),
                       logits |-> ForwardPad(logits_list, ZeroLogits),
                       estimated_value |-> ForwardPad(estimated_value_list, 0),
                       fix_message_length |-> sender.fix_message_length,
                       encoder_hidden_state |-> encoder_hidden_state]
            /\ pc' = "done"
            /\ raised' = "none"
    /\ UNCHANGED <<sender, call, encoder_hidden_state, h, c, e, h_dropout_mask,
                   e_dropout_mask, num_steps, symbol_list, logits_list,
                   estimated_value_list, cell_inputs, prev_eval>>

(* ------------------ sender: forward_gumbel_softmax -------------------- *)
GsCall ==
    /\ \E input \in Inputs, training \in BOOLEAN :
          \/ StartCall("gumbel", input, training, None, "none", 1, 1)
          \/ \E m \in IdSequences(sender.max_len) :
                StartCall("gumbel", input, training, <<m>>, "ids", 1, 1)
          \/ \E m \in VectorSequences(sender.max_len) :
                StartCall("gumbel", input, training, <<m>>, "vectors", 1, 1)
    /\ pc' = "gs_loop"

\* lines 199-201
RelaxedSymbols ==
    IF sender.gs_straight_through
    THEN {[k \in Symbols |-> x[k] + (shape_keeping_argmax(x)[k] - x[k])] :
            x \in RelaxedSamples}
    ELSE RelaxedSamples

\* lines 196-203
GsSymbols(forced_message, training, step, step_logits) ==
    IF forced_message # None THEN {forced_message[1][step + 1]}
    ELSE IF training THEN RelaxedSymbols
    ELSE {shape_keeping_argmax(step_logits)}

GsStep ==
    /\ pc = "gs_loop"
    /\ Len(symbol_list) < num_steps
    /\ LET step == Len(symbol_list)
           hc == cell(e, h, c)
           h2 == layer_norm(hc[1])
           step_logits == hidden_to_output(h2)
       IN  /\ cell_inputs' = Append(cell_inputs, e)
           /\ h' = h2
           /\ c' = hc[2]
           /\ \E symbol \in GsSymbols(call.forced_message, call.training,
                                      step, step_logits) :
                 symbol_list' = Append(symbol_list, symbol)
           /\ logits_list' = Append(logits_list, step_logits)
    /\ UNCHANGED <<sender, pc, call, encoder_hidden_state, e, h_dropout_mask,
                   e_dropout_mask, num_steps, estimated_value_list, out, raised,
                   prev_eval>>

\* the all-zero padding of forward
onehot_eos_zeros == [k \in Symbols |-> 0]

\* lines 212-213
onehot_eos == [k \in Symbols |-> IF k = 0 THEN Unit ELSE 0]

GsReturn ==
    /\ pc = "gs_loop"
    /\ Len(symbol_list) = num_steps
    /\ IF symbol_list = <<>>
       THEN \* torch.stack of an empty list
            /\ raised' = "RuntimeError"
            /\ pc' = "error"
            /\ out' = None
       ELSE IF ~sender.fix_message_length /\ call.forced_repr = "ids"
       THEN \* onehot_eos[:, 0, 0] on a message without a symbol dimension
            /\ raised' = "IndexError"
            /\ pc' = "error"
            /\ out' = None
       ELSE /\ out' = [message |-> IF ~sender.fix_message_length
                                   THEN Append(symbol_list, onehot_eos)
                                   ELSE symbol_list,
                       logits |-> IF ~sender.fix_message_length
                                  THEN Append(logits_list, ZeroLogits)
                                  ELSE logits_list,
                       fix_message_length |-> sender.fix_message_length,
                       straight_through |-> sender.gs_straight_through,
                       encoder_hidden_state |-> encoder_hidden_state]
            /\ pc' = "done"
            /\ raised' = "none"
    /\ UNCHANGED <<sender, call, encoder_hidden_state, h, c, e, h_dropout_mask,
                   e_dropout_mask, num_steps, symbol_list, logits_list,
                   estimated_value_list, cell_inputs, prev_eval>>

(* -------------------------- specifications ---------------------------- *)
\* no call of the sender has been made
SenderIdle ==
    /\ pc = "idle"
    /\ call = NoCallS
    /\ encoder_hidden_state = 0
    /\ h = 0
    /\ c = 0
    /\ e = 0
    /\ h_dropout_mask = 1
    /\ e_dropout_mask = 1
    /\ num_steps = 0
    /\ symbol_list = <<>>
    /\ logits_list = <<>>
    /\ estimated_value_list = <<>>
    /\ cell_inputs = <<>>
    /\ out = None
    /\ raised = "none"
    /\ prev_eval = None

\* no call of a scheduler has been made
SchedIdle ==
    /\ acc_ema = None
    /\ acc_history = <<>>
    /\ last = NoCall
    /\ prev = NoCall

\* forward never reads gs_straight_through: it keeps its default
InitForward ==
    /\ sender \in {s \in Senders : s.gs_straight_through}
    /\ SenderIdle
    /\ kind = "constant"
    /\ params = [NoParams EXCEPT !.value = One]
    /\ SchedIdle

NextForward ==
    \/ ForwardCall /\ UNCHANGED schedvars
    \/ ForwardStep /\ UNCHANGED schedvars
    \/ ForwardReturn /\ UNCHANGED schedvars

\* the sender, called again and again in score-function mode
SpecForward == InitForward /\ [][NextForward]_vars

\* forward_gumbel_softmax never reads dropout: it keeps its default
InitGumbel ==
    /\ sender \in {s \in Senders : s.dropout = 0}
    /\ SenderIdle
    /\ kind = "constant"
    /\ params = [NoParams EXCEPT !.value = One]
    /\ SchedIdle

NextGumbel ==
    \/ GsCall /\ UNCHANGED schedvars
    \/ GsStep /\ UNCHANGED schedvars
    \/ GsReturn /\ UNCHANGED schedvars

\* the sender, called again and again in relaxed-categorical mode
SpecGumbel == InitGumbel /\ [][NextGumbel]_vars

InitSched ==
    /\ ConstantInit \/ SigmoidInit \/ CyclicalInit \/ AccuracyInit
    /\ SchedIdle
    /\ sender = [max_len |-> 1, vocab_size |-> VocabSize,
                 fix_message_length |-> TRUE, cell_type |-> "rnn",
                 enable_layer_norm |-> TRUE, dropout |-> 0,
                 gs_straight_through |-> TRUE, w |-> Weights]
    /\ SenderIdle

NextSched ==
    \/ ConstantForward /\ UNCHANGED sendervars
    \/ SigmoidForward /\ UNCHANGED sendervars
    \/ CyclicalForward /\ UNCHANGED sendervars
    \/ AccuracyForwardTraining /\ UNCHANGED sendervars
    \/ AccuracyForwardEval /\ UNCHANGED sendervars

\* one scheduler instance, called again and again
SpecSched == InitSched /\ [][NextSched]_vars


(* ------------------------------ claims -------------------------------- *)
\* a forward call with a valid configuration: no forced message, or one of
\* max_len steps
ValidForwardCall ==
    /\ call.mode = "forward"
    /\ call.forced_message # None => Len(call.forced_message[1]) = sender.max_len

\* C1: a forward call with a valid configuration completes, and message,
\* logits and estimated_value of its output have exactly max_len steps.
C1_ForwardLength ==
    ValidForwardCall =>
        /\ pc # "error"
        /\ pc = "done" =>
              /\ Len(out.message) = sender.max_len
              /\ Len(out.logits) = sender.max_len
              /\ Len(out.estimated_value) = sender.max_len

\* C2: in forward, with a forced message supplied every generated symbol is
\* the forced message's symbol at that step; without one, the symbol of an
\* evaluation-context step is the arg-max of that step's logits.
C2_ForcedPriority ==
    call.mode = "forward" =>
        \A t \in 1 .. Len(symbol_list) :
            IF call.forced_message # None
            THEN symbol_list[t] = call.forced_message[1][t]
            ELSE ~call.training => symbol_list[t] = argmax(logits_list[t])

\* C3: the output of a variable-length forward call is the generated steps
\* followed by exactly one padding step (symbol 0, all-zero logits, value 0);
\* the output of a fixed-length call is the generated steps alone.
C3_ForwardPadding ==
    pc = "done" /\ call.mode = "forward" =>
        LET n == Len(symbol_list)
        IN  /\ n = num_steps
            /\ IF ~sender.fix_message_length
               THEN /\ Len(out.message) = n + 1
                    /\ Len(out.logits) = n + 1
                    /\ Len(out.estimated_value) = n + 1
                    /\ out.message[n + 1] = 0
                    /\ \A k \in Symbols : out.logits[n + 1][k] = 0
                    /\ out.estimated_value[n + 1] = 0
                    /\ SubSeq(out.message, 1, n) = symbol_list
                    /\ SubSeq(out.logits, 1, n) = logits_list
                    /\ SubSeq(out.estimated_value, 1, n) = estimated_value_list
               ELSE /\ out.message = symbol_list
                    /\ out.logits = logits_list
                    /\ out.estimated_value = estimated_value_list

\* a variable-length forward call has returned generated steps whose symbol,
\* logits and value are not those of the padding step
C3_Witness ==
    /\ pc = "done"
    /\ call.mode = "forward"
    /\ ~sender.fix_message_length
    /\ Len(out.message) >= 2
    /\ out.message[Len(out.message) - 1] # 0
    /\ out.logits[Len(out.logits) - 1] # ZeroLogits
    /\ out.estimated_value[Len(out.message) - 1] # 0

\* C4: the output of a variable-length forward_gumbel_softmax call is the
\* generated steps followed by one step whose message is 1 at index 0 and 0
\* elsewhere and whose logits are all zero; the output of a fixed-length call
\* is the generated steps alone.
C4_GumbelPadding ==
    pc = "done" /\ call.mode = "gumbel" =>
        LET n == Len(symbol_list)
        IN  IF ~sender.fix_message_length
            THEN /\ Len(out.message) = n + 1
                 /\ Len(out.logits) = n + 1
                 /\ out.message[n + 1][0] = Unit
                 /\ \A k \in Symbols \ {0} : out.message[n + 1][k] = 0
                 /\ \A k \in Symbols : out.logits[n + 1][k] = 0
                 /\ SubSeq(out.message, 1, n) = symbol_list
                 /\ SubSeq(out.logits, 1, n) = logits_list
            ELSE /\ out.message = symbol_list
                 /\ out.logits = logits_list

\* a variable-length forward_gumbel_softmax call has returned, its last
\* generated step not being the one-hot vector at index 0
C4_Witness ==
    /\ pc = "done"
    /\ call.mode = "gumbel"
    /\ ~sender.fix_message_length
    /\ Len(out.message) >= 2
    /\ out.message[Len(out.message) - 1][0] # Unit
    /\ out.logits[Len(out.logits) - 1] # ZeroLogits

\* C5: the stored moving average follows the recurrence over the batch means
\* fed by training-context calls, and a training-context call returns it
\* raised to exponent, whatever its step argument.
RECURSIVE C5_Ema(_)
C5_Ema(n) ==
    IF n = 1 THEN acc_history[1]
    ELSE RatAdd(RatMul(params.smoothing_factor, acc_history[n]),
                RatMul(RatSub(One, params.smoothing_factor), C5_Ema(n - 1)))

C5_EmaRecurrence ==
    kind = "accuracy" /\ acc_history # <<>> =>
        /\ acc_ema = C5_Ema(Len(acc_history))
        /\ last.training => last.ret = RatPow(C5_Ema(Len(acc_history)), params.exponent)

\* three training-context calls have fed different batch means, the last one
\* at a step other than 0
C5_Witness ==
    /\ kind = "accuracy"
    /\ Len(acc_history) = 3
    /\ acc_history[1] # acc_history[2]
    /\ acc_history[2] # acc_history[3]
    /\ last.training
    /\ last.step > 0
    /\ params.smoothing_factor # <<1, 2>>

\* C6: an evaluation-context call leaves acc_ema as it is, and returns 0 when
\* acc_ema is None and acc_ema ** exponent otherwise.
C6_EvalFrozen ==
    [][kind = "accuracy" /\ ~last'.training =>
          /\ acc_ema' = acc_ema
          /\ last'.ret = IF acc_ema = None THEN Zero
                         ELSE RatPow(acc_ema, params.exponent)]_vars

\* an evaluation-context call was made on a tracking scheduler with a batch
\* mean other than the stored average
C6_Witness ==
    /\ kind = "accuracy"
    /\ last.acc # None
    /\ ~last.training
    /\ acc_ema # None
    /\ Mean(last.acc) # acc_ema
    /\ last.ret # Zero

\* C7: a call of the linear ramp returns min(1, (step+1)/(period*peak)); of
\* two calls the one with the larger step returns no less; the call returns 1
\* from step ceil(period*peak) - 1 on.
C7_Ramp(call_) ==
    LET x == Rat((call_.step + 1) * params.position_to_reach_peak[2],
                 params.period * params.position_to_reach_peak[1])
    IN  IF RatLess(x, One) THEN x ELSE One

C7_LinearRamp ==
    kind = "cyclical" /\ last.acc # None /\ last.raised = "none" =>
        /\ last.ret = C7_Ramp(last)
        /\ last.step >= Ceil(RatMul(<<params.period, 1>>, params.position_to_reach_peak)) - 1
              => last.ret = One
        /\ prev.acc # None /\ prev.raised = "none" =>
              /\ prev.step <= last.step => RatLeq(prev.ret, last.ret)
              /\ prev.step >= last.step => RatLeq(last.ret, prev.ret)

\* the ramp was called below its peak and then, more than a period later,
\* at its peak
C7_Witness ==
    /\ kind = "cyclical"
    /\ last.acc # None
    /\ prev.acc # None
    /\ last.raised = "none"
    /\ prev.raised = "none"
    /\ RatLess(prev.ret, One)
    /\ last.ret = One
    /\ last.step >= prev.step + params.period
    /\ last.step % params.period = 0

\* C8: two evaluation-context forward calls without forced message and with
\* the same input return the same message, every symbol of which is the
\* arg-max of its step's logits.
C8_EvalDeterminism ==
    pc = "done" /\ call.mode = "forward" /\ ~call.training
    /\ call.forced_message = None =>
        /\ \A t \in 1 .. Len(symbol_list) : symbol_list[t] = argmax(logits_list[t])
        /\ prev_eval # None /\ prev_eval.input = call.input =>
              out.message = prev_eval.message

\* a sender with dropout has returned twice for the same input in evaluation
\* context, a message that is not all zero
C8_Witness ==
    /\ pc = "done"
    /\ call.mode = "forward"
    /\ ~call.training
    /\ call.forced_message = None
    /\ sender.dropout > 0
    /\ prev_eval # None
    /\ prev_eval.input = call.input
    /\ \E t \in 1 .. Len(out.message) : out.message[t] # 0

\* C9: in forward_gumbel_softmax the first input of the cell is the
\* begin-of-sequence embedding and every later one is the mixture of the
\* embedding table weighted by the vector chosen one step earlier.
C9_Mixture(x) ==
    (SumVec([k \in Symbols |-> x[k] * sender.w.embedding[k]], VocabSize - 1)
        \div Unit) % Modulus

C9_GumbelInputs ==
    call.mode = "gumbel" /\ call.forced_repr # "ids" =>
        \A t \in 1 .. Len(cell_inputs) :
            cell_inputs[t] = IF t = 1 THEN sender.w.bos_embedding
                             ELSE C9_Mixture(symbol_list[t - 1])

\* C10: the accuracy-based scheduler starts with acc_ema None; acc_ema
\* becomes a number at the first training-context call and at no other call,
\* and never becomes None again; a call changes nothing of another scheduler.
C10_StateMachine ==
    /\ acc_ema = None
    /\ [][/\ (kind = "accuracy" /\ last'.training) => acc_ema' # None
          /\ acc_ema # None => acc_ema' # None
          /\ (acc_ema = None /\ acc_ema' # None) => (kind = "accuracy" /\ last'.training)
          /\ kind' = kind
          /\ params' = params
          /\ kind # "accuracy" => acc_ema' = acc_ema]_vars

\* a tracking scheduler was called in evaluation context
C10_Witness ==
    /\ kind = "accuracy"
    /\ acc_ema # None
    /\ Len(acc_history) = 1
    /\ last.acc # None
    /\ ~last.training

\* C11: a call of a linear ramp whose construction succeeded raises no
\* error and returns a coefficient in (0, 1].
C11_RampNeverRaises ==
    kind = "cyclical" /\ last.acc # None =>
        /\ last.raised = "none"
        /\ RatLess(Zero, last.ret)
        /\ RatLeq(last.ret, One)

====
